---- MODULE Spec2Model ----
(***************************************************************************)
(* Model of two components of the storage/export layer:                    *)
(*   - TableTupleFilter and TableTupleFilter_iter                          *)
(*     (src/ee/storage/tabletuplefilter.h)                                 *)
(*   - ExecutorFactory                                                     *)
(*     (src/frontend/org/voltdb/export/ExecutorFactory.java)               *)
(* Slot indices are 0-based as in the code; the TLA+ sequence m_tuples     *)
(* holds slot i at position i + 1.                                         *)
(***************************************************************************)
EXTENDS Integers, Sequences, FiniteSets, TLC

\* ------------------------------------------------------------------------
\* Bounds of the model
\* ------------------------------------------------------------------------
\* number of blocks of a table is in 1..MaxBlocks
MaxBlocks == 2
\* tuples per block is in 1..MaxTuplesPerBlock
MaxTuplesPerBlock == 2
\* a table has at most MaxSlots tuple slots (blocks * tuples per block)
MaxSlots == 4
\* tuple length (bytes) is 1 or MaxTupleLength
MaxTupleLength == 2
\* caller-defined marker codes are 1..MaxMarker
MaxMarker == 1
\* number of updateTuple calls in one run
MaxUpdates == 2
\* partition ids are 1..MaxPartitions
MaxPartitions == 2
\* outstanding allocations (export data sources) of one partition
MaxAllocations == 2
\* freeExecutor calls served in one run without an outstanding allocation
MaxUnmatched == 1
\* executors created in one run
MaxExecutorsCreated == 2
\* the MAX_EXPORT_THREADS property, when set, is in 0..MaxConfigThreads
MaxConfigThreads == 2
\* the local sites count is in 0..MaxLocalSites
MaxLocalSites == 2
\* the available processors are 1 or MaxProcessors
MaxProcessors == 12

\* ------------------------------------------------------------------------
\* Program constants
\* ------------------------------------------------------------------------
\* uint64_t arithmetic is modulo 2^64; the model keeps the wrap-around but
\* scales the word down to 16 bits (every index of the model is far below).
WordModulus == 65536
INVALID_INDEX == WordModulus - 1
INACTIVE_TUPLE == -1
ACTIVE_TUPLE == 0

\* the marker codes (char) the model draws from
Markers == {INACTIVE_TUPLE, ACTIVE_TUPLE} \cup (1..MaxMarker)

NoCall == [op |-> "none"]
NoIter == [live |-> FALSE]

VARIABLES
    \* --- the table the filter is built from (environment) ---
    table,
    \* --- TableTupleFilter fields ---
    m_tuples, m_blocks, m_blockIndexes, m_tuplesPerBlock, m_tupleLength,
    m_prevBlockAddress, m_prevBlockIndex, m_lastActiveTupleIndex,
    \* --- caller side of the filter ---
    phase,      \* "constructed" | "ready" | "aborted" (an assertion failed)
    lastCall,   \* the last init or updateTuple call and its result
    iter,       \* the caller's live TableTupleFilter_iter, if any
    nUpdates,
    \* --- what ExecutorFactory reads from its environment ---
    env,
    \* --- ExecutorFactory fields (an Integer is <<>> for null, <<n>> for n) ---
    m_maxThreads, m_nextAlloc, m_executors, m_refCounts, m_pid2execMap,
    \* --- caller side of the factory ---
    held,          \* the allocations gotten and not yet freed: <<pid, les>> :> how many
    created,       \* number of executors created so far (they are 1..created)
    shutdownExecs, \* the executors that were shut down
    unmatched,     \* number of freeExecutor calls served without an outstanding allocation
    factoryCall    \* the last getExecutor / freeExecutor call and its outcome

filterVars == <<m_tuples, m_blocks, m_blockIndexes, m_tuplesPerBlock, m_tupleLength,
                m_prevBlockAddress, m_prevBlockIndex, m_lastActiveTupleIndex>>
filterSide == <<table, filterVars, phase, lastCall, iter, nUpdates>>
factoryVars == <<m_maxThreads, m_nextAlloc, m_executors, m_refCounts, m_pid2execMap>>
factorySide == <<env, factoryVars, held, created, shutdownExecs, unmatched, factoryCall>>
vars == <<filterSide, factorySide>>

\* ------------------------------------------------------------------------
\* Helpers
\* ------------------------------------------------------------------------
Range(s) == {s[i] : i \in 1..Len(s)}

Min(S) == CHOOSE x \in S : \A y \in S : x <= y

RECURSIVE SortedSeq(_)
SortedSeq(S) == IF S = {} THEN <<>>
                ELSE LET m == Min(S) IN <<m>> \o SortedSeq(S \ {m})

\* ------------------------------------------------------------------------
\* The table collaborator: blocks at block-aligned base addresses, a fixed
\* geometry, and a set of active tuples (by address)
\* ------------------------------------------------------------------------
BlockSpan(tpb, len) == tpb * len

\* the blocks of a table lie at the block-aligned addresses 1*span .. n*span and
\* are enumerated in ascending or in descending address order
BlockLists(tpb, len) ==
    UNION {{[i \in 1..n |-> i * BlockSpan(tpb, len)],
            [i \in 1..n |-> (n + 1 - i) * BlockSpan(tpb, len)]} :
           n \in {k \in 1..MaxBlocks : k * tpb <= MaxSlots}}

SlotAddresses(blocks, tpb, len) ==
    {blocks[b] + s * len : b \in 1..Len(blocks), s \in 0..(tpb - 1)}

Tables ==
    UNION {UNION {UNION {
        {[blocks |-> bl, tuplesPerBlock |-> tpb, tupleLength |-> len, active |-> act] :
            act \in SUBSET SlotAddresses(bl, tpb, len)} :
        bl \in BlockLists(tpb, len)} :
        len \in {1, MaxTupleLength}} :
        tpb \in 1..MaxTuplesPerBlock}

\* ------------------------------------------------------------------------
\* The filter as a record (so that the methods can be written as functions
\* of the object they work on)
\* ------------------------------------------------------------------------
Self == [tuples |-> m_tuples, blocks |-> m_blocks, blockIndexes |-> m_blockIndexes,
         tuplesPerBlock |-> m_tuplesPerBlock, tupleLength |-> m_tupleLength,
         prevBlockAddress |-> m_prevBlockAddress, prevBlockIndex |-> m_prevBlockIndex,
         lastActiveTupleIndex |-> m_lastActiveTupleIndex]

Store(f) ==
    /\ m_tuples' = f.tuples
    /\ m_blocks' = f.blocks
    /\ m_blockIndexes' = f.blockIndexes
    /\ m_tuplesPerBlock' = f.tuplesPerBlock
    /\ m_tupleLength' = f.tupleLength
    /\ m_prevBlockAddress' = f.prevBlockAddress
    /\ m_prevBlockIndex' = f.prevBlockIndex
    /\ m_lastActiveTupleIndex' = f.lastActiveTupleIndex

\* the freshly constructed filter
Constructed == [tuples |-> <<>>, blocks |-> <<>>, blockIndexes |-> <<>>,
                tuplesPerBlock |-> 0, tupleLength |-> 0,
                prevBlockAddress |-> 0, prevBlockIndex |-> 0,
                lastActiveTupleIndex |-> INVALID_INDEX]

\* findBlockIndex whose cache test has no upper bound: every address at or
\* above the cached block's base is taken as a tuple of the cached block
findBlockIndex_noUpperBound(f, tupleAddress) ==
    IF tupleAddress >= f.prevBlockAddress
    THEN [f |-> f, index |-> f.prevBlockIndex, found |-> TRUE]
    ELSE LET span == BlockSpan(f.tuplesPerBlock, f.tupleLength)
             base == (tupleAddress \div span) * span
         IN  IF base \in DOMAIN f.blockIndexes
             THEN [f |-> [f EXCEPT !.prevBlockAddress = base,
                                   !.prevBlockIndex = f.blockIndexes[base]],
                   index |-> f.blockIndexes[base], found |-> TRUE]
             ELSE [f |-> f, index |-> 0, found |-> FALSE]

\* findBlockIndex: the single-entry cache first, then the block-aligned base
\* looked up in the map; the cache is refreshed on a miss.
findBlockIndex(f, tupleAddress) ==
    LET span == BlockSpan(f.tuplesPerBlock, f.tupleLength) IN
    IF /\ tupleAddress >= f.prevBlockAddress
       /\ tupleAddress < f.prevBlockAddress + span
    THEN [f |-> f, index |-> f.prevBlockIndex, found |-> TRUE]
    ELSE LET base == (tupleAddress \div span) * span IN
         IF base \in DOMAIN f.blockIndexes
         THEN [f |-> [f EXCEPT !.prevBlockAddress = base,
                               !.prevBlockIndex = f.blockIndexes[base]],
               index |-> f.blockIndexes[base], found |-> TRUE]
         ELSE [f |-> f, index |-> 0, found |-> FALSE]

\* getTupleIndex: note that it reads m_prevBlockAddress after findBlockIndex
\* has refreshed it
getTupleIndex(f, tupleAddress) ==
    LET r == findBlockIndex(f, tupleAddress) IN
    [f |-> r.f, found |-> r.found,
     idx |-> (tupleAddress - r.f.prevBlockAddress) \div r.f.tupleLength + r.index]

\* initActiveTuple with the last active tuple index overwritten by every tuple
\* (the "advance if necessary" test dropped)
initActiveTuple_alwaysAdvance(f, tupleAddress) ==
    LET r == getTupleIndex(f, tupleAddress)
        g == r.f
        tupleIdx == r.idx
    IN  IF ~r.found \/ tupleIdx >= Len(g.tuples) \/ g.tuples[tupleIdx + 1] # INACTIVE_TUPLE
        THEN [f |-> g, ok |-> FALSE]
        ELSE [f |-> [g EXCEPT !.tuples[tupleIdx + 1] = ACTIVE_TUPLE,
                              !.lastActiveTupleIndex = tupleIdx],
              ok |-> TRUE]

\* initActiveTuple that records the slot after the tuple's as the last active
initActiveTuple_lastOneBeyond(f, tupleAddress) ==
    LET r == getTupleIndex(f, tupleAddress)
        g == r.f
        tupleIdx == r.idx
    IN  IF ~r.found \/ tupleIdx >= Len(g.tuples) \/ g.tuples[tupleIdx + 1] # INACTIVE_TUPLE
        THEN [f |-> g, ok |-> FALSE]
        ELSE [f |-> [g EXCEPT !.tuples[tupleIdx + 1] = ACTIVE_TUPLE,
                              !.lastActiveTupleIndex =
                                  IF g.lastActiveTupleIndex = INVALID_INDEX
                                     \/ g.lastActiveTupleIndex < tupleIdx + 1
                                  THEN tupleIdx + 1 ELSE g.lastActiveTupleIndex],
              ok |-> TRUE]

\* initActiveTuple; ok is FALSE when its assertion fails
initActiveTuple(f, tupleAddress) ==
    LET r == getTupleIndex(f, tupleAddress)
        g == r.f
        tupleIdx == r.idx
    IN  IF ~r.found \/ tupleIdx >= Len(g.tuples) \/ g.tuples[tupleIdx + 1] # INACTIVE_TUPLE
        THEN [f |-> g, ok |-> FALSE]
        ELSE [f |-> [g EXCEPT !.tuples[tupleIdx + 1] = ACTIVE_TUPLE,
                              !.lastActiveTupleIndex =
                                  IF g.lastActiveTupleIndex = INVALID_INDEX
                                     \/ g.lastActiveTupleIndex < tupleIdx
                                  THEN tupleIdx ELSE g.lastActiveTupleIndex],
              ok |-> TRUE]

\* init(blocks, tuplesPerBlock, tupleLength)
initBlocks(f, blocks, tuplesPerBlock, tupleLength) ==
    [f EXCEPT !.tuplesPerBlock = tuplesPerBlock,
              !.tupleLength = tupleLength,
              !.blocks = blocks,
              !.tuples = [i \in 1..(Len(blocks) * tuplesPerBlock) |-> INACTIVE_TUPLE],
              !.blockIndexes = [a \in Range(blocks) |->
                    ((CHOOSE i \in 1..Len(blocks) : blocks[i] = a) - 1) * tuplesPerBlock],
              !.prevBlockAddress = blocks[1],
              !.prevBlockIndex = 0,
              !.lastActiveTupleIndex = INVALID_INDEX]

RECURSIVE initActiveTuples(_, _)
initActiveTuples(r, tuples) ==
    IF tuples = <<>> \/ ~r.ok THEN r
    ELSE initActiveTuples(initActiveTuple(r.f, Head(tuples)), Tail(tuples))

\* init(Table*): enumerate the blocks, then mark every active tuple, in the
\* table iterator's (address) order
initTable(f, tb) ==
    initActiveTuples([f |-> initBlocks(f, tb.blocks, tb.tuplesPerBlock, tb.tupleLength),
                      ok |-> TRUE],
                     SortedSeq(tb.active))

\* The class comment's equation, computed without the cache:
\* Tuple Index = (Tuple Address - Tuple Block Address) / Tuple Size + Block Offset,
\* Block Offset = Block Number * Tuples Per Block
BlockNumberOf(tb, tupleAddress) ==
    CHOOSE b \in 1..Len(tb.blocks) :
        /\ tupleAddress >= tb.blocks[b]
        /\ tupleAddress < tb.blocks[b] + BlockSpan(tb.tuplesPerBlock, tb.tupleLength)

TupleIndexOf(tb, tupleAddress) ==
    LET b == BlockNumberOf(tb, tupleAddress) IN
    (tupleAddress - tb.blocks[b]) \div tb.tupleLength + (b - 1) * tb.tuplesPerBlock

\* ------------------------------------------------------------------------
\* Methods of the initialized filter
\* ------------------------------------------------------------------------
getLastActiveTupleIndex(f) == f.lastActiveTupleIndex

empty(f) == f.lastActiveTupleIndex = INVALID_INDEX

\* getTupleValue; ok is FALSE when its bounds assertion fails
getTupleValue(f, tupleIdx) ==
    IF tupleIdx < Len(f.tuples)
    THEN [ok |-> TRUE, value |-> f.tuples[tupleIdx + 1]]
    ELSE [ok |-> FALSE, value |-> INACTIVE_TUPLE]

\* getTupleAddress; ok is FALSE when one of its assertions fails
getTupleAddress(f, tupleIdx) ==
    IF tupleIdx >= Len(f.tuples) THEN [ok |-> FALSE, address |-> 0]
    ELSE LET blockIdx == tupleIdx \div f.tuplesPerBlock IN
         IF blockIdx >= Len(f.blocks) THEN [ok |-> FALSE, address |-> 0]
         ELSE [ok |-> TRUE,
               address |-> f.blocks[blockIdx + 1] + (tupleIdx - blockIdx) * f.tupleLength]

\* updateTuple that resolves and checks the slot but never stores the marker
updateTuple_noStore(f, tupleAddress, marker) ==
    LET r == getTupleIndex(f, tupleAddress)
        g == r.f
        tupleIdx == r.idx
    IN  IF ~r.found THEN [f |-> g, ok |-> FALSE, ret |-> tupleIdx]
        ELSE IF ~(tupleIdx <= g.lastActiveTupleIndex /\ g.lastActiveTupleIndex # INVALID_INDEX)
        THEN [f |-> g, ok |-> FALSE, ret |-> tupleIdx]
        ELSE IF ~(g.tuples[tupleIdx + 1] # INACTIVE_TUPLE)
        THEN [f |-> g, ok |-> FALSE, ret |-> tupleIdx]
        ELSE [f |-> g, ok |-> TRUE, ret |-> tupleIdx]

\* updateTuple without the assertion on the slot's current marker
updateTuple_noInactiveCheck(f, tupleAddress, marker) ==
    LET r == getTupleIndex(f, tupleAddress)
        g == r.f
        tupleIdx == r.idx
    IN  IF ~r.found THEN [f |-> g, ok |-> FALSE, ret |-> tupleIdx]
        ELSE IF ~(tupleIdx <= g.lastActiveTupleIndex /\ g.lastActiveTupleIndex # INVALID_INDEX)
        THEN [f |-> g, ok |-> FALSE, ret |-> tupleIdx]
        ELSE [f |-> [g EXCEPT !.tuples[tupleIdx + 1] = marker], ok |-> TRUE, ret |-> tupleIdx]

\* updateTuple that also records the slot it stamps as the last active one
updateTuple_movesLast(f, tupleAddress, marker) ==
    LET r == getTupleIndex(f, tupleAddress)
        g == r.f
        tupleIdx == r.idx
    IN  IF ~r.found THEN [f |-> g, ok |-> FALSE, ret |-> tupleIdx]
        ELSE IF ~(tupleIdx <= g.lastActiveTupleIndex /\ g.lastActiveTupleIndex # INVALID_INDEX)
        THEN [f |-> g, ok |-> FALSE, ret |-> tupleIdx]
        ELSE IF ~(g.tuples[tupleIdx + 1] # INACTIVE_TUPLE)
        THEN [f |-> g, ok |-> FALSE, ret |-> tupleIdx]
        ELSE [f |-> [g EXCEPT !.tuples[tupleIdx + 1] = marker,
                              !.lastActiveTupleIndex = tupleIdx],
              ok |-> TRUE, ret |-> tupleIdx]

\* updateTuple; the two asserts are compiled in (no NDEBUG): ok is FALSE when
\* one of them fails, which ends the process with the marker array as it was
updateTuple(f, tupleAddress, marker) ==
    LET r == getTupleIndex(f, tupleAddress)
        g == r.f
        tupleIdx == r.idx
    IN  IF ~r.found THEN [f |-> g, ok |-> FALSE, ret |-> tupleIdx]
        ELSE IF ~(tupleIdx <= g.lastActiveTupleIndex /\ g.lastActiveTupleIndex # INVALID_INDEX)
        THEN [f |-> g, ok |-> FALSE, ret |-> tupleIdx]
        ELSE IF ~(g.tuples[tupleIdx + 1] # INACTIVE_TUPLE)
        THEN [f |-> g, ok |-> FALSE, ret |-> tupleIdx]
        ELSE [f |-> [g EXCEPT !.tuples[tupleIdx + 1] = marker], ok |-> TRUE, ret |-> tupleIdx]

\* ------------------------------------------------------------------------
\* TableTupleFilter_iter
\* ------------------------------------------------------------------------
\* increment bounded by the size of the marker array instead of the last
\* active tuple index
RECURSIVE increment_boundBySize(_, _, _)
increment_boundBySize(f, MARKER, tupleIdx) ==
    LET next == (tupleIdx + 1) % WordModulus IN
    IF next < Len(f.tuples)
    THEN LET v == getTupleValue(f, next) IN
         IF ~v.ok THEN [idx |-> next, ok |-> FALSE, reads |-> {next}]
         ELSE IF v.value # MARKER
         THEN LET n == increment_boundBySize(f, MARKER, next) IN
              [n EXCEPT !.reads = @ \cup {next}]
         ELSE [idx |-> next, ok |-> TRUE, reads |-> {next}]
    ELSE [idx |-> next, ok |-> TRUE, reads |-> {}]

\* increment whose loop condition reads the marker before it tests the bound:
\* while (getTupleValue(m_tupleIdx) != MARKER && m_tupleIdx <= last)
RECURSIVE increment_readThenTest(_, _, _)
increment_readThenTest(f, MARKER, tupleIdx) ==
    LET next == (tupleIdx + 1) % WordModulus
        v == getTupleValue(f, next)
    IN  IF ~v.ok THEN [idx |-> next, ok |-> FALSE, reads |-> {next}]
        ELSE IF v.value # MARKER /\ next <= getLastActiveTupleIndex(f)
        THEN LET n == increment_readThenTest(f, MARKER, next) IN
             [n EXCEPT !.reads = @ \cup {next}]
        ELSE [idx |-> next, ok |-> TRUE, reads |-> {next}]

\* increment written as a while loop: the index is not advanced before the
\* first test, so an iterator on a matching slot stays on it
RECURSIVE increment_whileLoop(_, _, _)
increment_whileLoop(f, MARKER, tupleIdx) ==
    IF tupleIdx <= getLastActiveTupleIndex(f)
    THEN LET v == getTupleValue(f, tupleIdx) IN
         IF ~v.ok THEN [idx |-> tupleIdx, ok |-> FALSE, reads |-> {tupleIdx}]
         ELSE IF v.value # MARKER
         THEN LET n == increment_whileLoop(f, MARKER, (tupleIdx + 1) % WordModulus) IN
              [n EXCEPT !.reads = @ \cup {tupleIdx}]
         ELSE [idx |-> tupleIdx, ok |-> TRUE, reads |-> {tupleIdx}]
    ELSE [idx |-> tupleIdx, ok |-> TRUE, reads |-> {}]

\* increment: do { ++m_tupleIdx; } while (m_tupleIdx <= last && value != MARKER);
\* ok is FALSE when getTupleValue's assertion fails on the way, reads are the
\* indices it passed to getTupleValue
RECURSIVE increment(_, _, _)
increment(f, MARKER, tupleIdx) ==
    LET next == (tupleIdx + 1) % WordModulus IN
    IF next <= getLastActiveTupleIndex(f)
    THEN LET v == getTupleValue(f, next) IN
         IF ~v.ok THEN [idx |-> next, ok |-> FALSE, reads |-> {next}]
         ELSE IF v.value # MARKER
         THEN LET n == increment(f, MARKER, next) IN
              [n EXCEPT !.reads = @ \cup {next}]
         ELSE [idx |-> next, ok |-> TRUE, reads |-> {next}]
    ELSE [idx |-> next, ok |-> TRUE, reads |-> {}]

\* begin<MARKER>() whose search starts from index 0 instead of INVALID_INDEX,
\* so that the first slot looked at is slot 1
begin_fromZero(f, MARKER) ==
    IF ~empty(f) THEN increment(f, MARKER, 0)
    ELSE [idx |-> INVALID_INDEX, ok |-> TRUE, reads |-> {}]

\* begin<MARKER>(): the iterator constructor
begin(f, MARKER) ==
    IF ~empty(f) THEN increment(f, MARKER, INVALID_INDEX)
    ELSE [idx |-> INVALID_INDEX, ok |-> TRUE, reads |-> {}]

\* end<MARKER>() without the test for the empty filter
end_noEmptyCheck(f, MARKER) ==
    (getLastActiveTupleIndex(f) + 1) % WordModulus

\* end<MARKER>()
end(f, MARKER) ==
    IF getLastActiveTupleIndex(f) # INVALID_INDEX
    THEN (getLastActiveTupleIndex(f) + 1) % WordModulus
    ELSE INVALID_INDEX

\* equal
equal(idxA, idxB) == idxA = idxB

\* A whole walk for (it = begin<M>(); it != end<M>(); ++it), cut after `fuel`
\* increments: the indices yielded, the increments made, whether it stopped
\* at end<M>()
RECURSIVE WalkFrom(_, _, _, _)
WalkFrom(f, MARKER, tupleIdx, fuel) ==
    IF equal(tupleIdx, end(f, MARKER))
    THEN [yielded |-> <<>>, increments |-> 0, atEnd |-> TRUE]
    ELSE IF fuel = 0
    THEN [yielded |-> <<tupleIdx>>, increments |-> 0, atEnd |-> FALSE]
    ELSE LET n == increment(f, MARKER, tupleIdx) IN
         IF ~n.ok THEN [yielded |-> <<tupleIdx>>, increments |-> 1, atEnd |-> FALSE]
         ELSE LET rest == WalkFrom(f, MARKER, n.idx, fuel - 1) IN
              [yielded |-> <<tupleIdx>> \o rest.yielded,
               increments |-> rest.increments + 1,
               atEnd |-> rest.atEnd]

Walk(f, MARKER) ==
    LET b == begin(f, MARKER) IN
    IF ~b.ok THEN [yielded |-> <<>>, increments |-> 0, atEnd |-> FALSE]
    ELSE WalkFrom(f, MARKER, b.idx, Len(f.tuples) + 2)

\* ------------------------------------------------------------------------
\* Initial state and actions of the filter
\* ------------------------------------------------------------------------
FilterConstructed ==
    /\ m_tuples = Constructed.tuples
    /\ m_blocks = Constructed.blocks
    /\ m_blockIndexes = Constructed.blockIndexes
    /\ m_tuplesPerBlock = Constructed.tuplesPerBlock
    /\ m_tupleLength = Constructed.tupleLength
    /\ m_prevBlockAddress = Constructed.prevBlockAddress
    /\ m_prevBlockIndex = Constructed.prevBlockIndex
    /\ m_lastActiveTupleIndex = Constructed.lastActiveTupleIndex
    /\ phase = "constructed"
    /\ lastCall = NoCall
    /\ iter = NoIter
    /\ nUpdates = 0

FilterInit ==
    /\ table \in Tables
    /\ FilterConstructed

\* the filter side while only the factory runs: a filter never initialized
FilterIdle ==
    /\ table = [blocks |-> <<1>>, tuplesPerBlock |-> 1, tupleLength |-> 1, active |-> {}]
    /\ FilterConstructed

\* init(table)
InitFilter ==
    /\ phase = "constructed"
    /\ LET r == initTable(Self, table) IN
       /\ Store(r.f)
       /\ phase' = IF r.ok THEN "ready" ELSE "aborted"
       /\ lastCall' = [op |-> "init"]
    /\ UNCHANGED <<table, iter, nUpdates, factorySide>>

\* updateTuple(tuple, marker), for a tuple of any slot of an enumerated block;
\* the scan pass runs while no iteration is under way
UpdateTuple ==
    /\ phase = "ready"
    /\ ~iter.live
    /\ nUpdates < MaxUpdates
    /\ \E t \in SlotAddresses(table.blocks, table.tuplesPerBlock, table.tupleLength),
          marker \in Markers :
        LET r == updateTuple(Self, t, marker) IN
        /\ Store(r.f)
        /\ phase' = IF r.ok THEN "ready" ELSE "aborted"
        /\ lastCall' = [op |-> "updateTuple", tuple |-> t, marker |-> marker,
                        ok |-> r.ok, ret |-> r.ret,
                        prev |-> IF r.ret < Len(m_tuples) THEN m_tuples[r.ret + 1]
                                 ELSE INACTIVE_TUPLE]
    /\ nUpdates' = nUpdates + 1
    /\ UNCHANGED <<table, iter, factorySide>>

\* updateTuple(tuple, marker) called between two increments of the caller's
\* live iterator
UpdateDuringIteration ==
    /\ phase = "ready"
    /\ iter.live
    /\ nUpdates < MaxUpdates
    /\ \E t \in SlotAddresses(table.blocks, table.tuplesPerBlock, table.tupleLength),
          marker \in Markers :
        LET r == updateTuple(Self, t, marker) IN
        /\ Store(r.f)
        /\ phase' = IF r.ok THEN "ready" ELSE "aborted"
        /\ lastCall' = [op |-> "updateTuple", tuple |-> t, marker |-> marker,
                        ok |-> r.ok, ret |-> r.ret,
                        prev |-> IF r.ret < Len(m_tuples) THEN m_tuples[r.ret + 1]
                                 ELSE INACTIVE_TUPLE]
    /\ nUpdates' = nUpdates + 1
    /\ UNCHANGED <<table, iter, factorySide>>

\* it = begin<MARKER>()
Begin ==
    /\ phase = "ready"
    /\ \E MARKER \in Markers :
        LET b == begin(Self, MARKER) IN
        /\ phase' = IF b.ok THEN "ready" ELSE "aborted"
        /\ iter' = [live |-> TRUE, marker |-> MARKER, tupleIdx |-> b.idx,
                    yielded |-> IF equal(b.idx, end(Self, MARKER)) THEN <<>> ELSE <<b.idx>>,
                    increments |-> 0, fetched |-> FALSE, address |-> 0]
    /\ UNCHANGED <<table, filterVars, lastCall, nUpdates, factorySide>>

\* ++it, which the caller does while it != end<MARKER>()
Increment ==
    /\ phase = "ready"
    /\ iter.live
    /\ ~equal(iter.tupleIdx, end(Self, iter.marker))
    /\ LET n == increment(Self, iter.marker, iter.tupleIdx) IN
       /\ phase' = IF n.ok THEN "ready" ELSE "aborted"
       /\ iter' = [iter EXCEPT !.tupleIdx = n.idx,
                               !.yielded = IF equal(n.idx, end(Self, iter.marker)) THEN @
                                           ELSE Append(@, n.idx),
                               !.increments = @ + 1,
                               !.fetched = FALSE,
                               !.address = 0]
    /\ UNCHANGED <<table, filterVars, lastCall, nUpdates, factorySide>>

\* getTupleAddress(*it): the caller maps the slot the iterator stands on back
\* to the tuple
GetTupleAddress ==
    /\ phase = "ready"
    /\ iter.live
    /\ ~equal(iter.tupleIdx, end(Self, iter.marker))
    /\ ~iter.fetched
    /\ LET r == getTupleAddress(Self, iter.tupleIdx) IN
       /\ phase' = IF r.ok THEN "ready" ELSE "aborted"
       /\ iter' = [iter EXCEPT !.fetched = TRUE, !.address = r.address]
    /\ UNCHANGED <<table, filterVars, lastCall, nUpdates, factorySide>>

\* the caller leaves the loop and drops the iterator
EndIteration ==
    /\ phase = "ready"
    /\ iter.live
    /\ iter' = NoIter
    /\ UNCHANGED <<table, filterVars, phase, lastCall, nUpdates, factorySide>>

\* ------------------------------------------------------------------------
\* ExecutorFactory
\* ------------------------------------------------------------------------
PartitionIds == 1..MaxPartitions

Max(a, b) == IF a >= b THEN a ELSE b

\* what the factory reads when it initializes: the MAX_EXPORT_THREADS system
\* property (<<>> when not set), the processors of the host, the local sites
\* count of the node settings (0 when undefined)
Envs == [property : {<<>>} \cup {<<n>> : n \in 0..MaxConfigThreads},
         availableProcessors : {1, MaxProcessors},
         localSitesCount : 0..MaxLocalSites]

\* the factory as a record
Factory == [maxThreads |-> m_maxThreads, nextAlloc |-> m_nextAlloc,
            executors |-> m_executors, refCounts |-> m_refCounts,
            pid2execMap |-> m_pid2execMap]

StoreFactory(fa) ==
    /\ m_maxThreads' = fa.maxThreads
    /\ m_nextAlloc' = fa.nextAlloc
    /\ m_executors' = fa.executors
    /\ m_refCounts' = fa.refCounts
    /\ m_pid2execMap' = fa.pid2execMap

\* the factory after its constructor: m_maxThreads is null, m_nextAlloc is 0;
\* the three collections are null and are written here as empty
FactoryConstructed == [maxThreads |-> <<>>, nextAlloc |-> 0, executors |-> <<>>,
                       refCounts |-> <<>>, pid2execMap |-> <<>>]

Put(map, key, value) == [k \in DOMAIN map \cup {key} |-> IF k = key THEN value ELSE map[k]]

Remove(map, key) == [k \in DOMAIN map \ {key} |-> map[k]]

\* ArrayList.remove(Object)
RemoveFromList(list, les) == SelectSeq(list, LAMBDA e : e # les)

isInitialized(fa) == fa.maxThreads # <<>>

getMinThreads(e) == Max(2, e.availableProcessors \div 4)

\* Integer.getInteger(MAX_EXPORT_THREADS, getMinThreads())
getConfigMaxThreads(e) == IF e.property = <<>> THEN getMinThreads(e) ELSE e.property[1]

getLocalSitesCount(e) == e.localSitesCount

initialize(fa, e) ==
    IF isInitialized(fa) THEN fa
    ELSE LET configured == getConfigMaxThreads(e)
             minThreads == getMinThreads(e)
             localSitesCount == getLocalSitesCount(e)
             maxThreads == IF configured < 1 THEN minThreads
                           ELSE IF localSitesCount = 0 THEN minThreads
                           ELSE IF configured > localSitesCount THEN localSitesCount
                           ELSE configured
         IN  [maxThreads |-> <<maxThreads>>, nextAlloc |-> 0, executors |-> <<>>,
              refCounts |-> <<>>, pid2execMap |-> <<>>]

\* allocate with the test for a free thread off by one (<= for <)
allocate_oneTooMany(fa, partitionId, fresh) ==
    IF partitionId \in DOMAIN fa.pid2execMap
    THEN LET les == fa.pid2execMap[partitionId] IN
         [fa |-> [fa EXCEPT !.refCounts = Put(@, les, @[les] + 1)],
          les |-> les, isNew |-> FALSE]
    ELSE IF Len(fa.executors) <= fa.maxThreads[1]
    THEN [fa |-> [fa EXCEPT !.executors = Append(@, fresh),
                            !.refCounts = Put(@, fresh, 1),
                            !.pid2execMap = Put(@, partitionId, fresh)],
          les |-> fresh, isNew |-> TRUE]
    ELSE LET nextAlloc == IF fa.nextAlloc >= Len(fa.executors) THEN 0 ELSE fa.nextAlloc
             les == fa.executors[nextAlloc + 1]
         IN  [fa |-> [fa EXCEPT !.refCounts = Put(@, les, @[les] + 1),
                                !.pid2execMap = Put(@, partitionId, les),
                                !.nextAlloc = nextAlloc + 1],
              les |-> les, isNew |-> FALSE]

\* allocate without the lookup of the partition's executor
allocate_noPartitionLookup(fa, partitionId, fresh) ==
    IF Len(fa.executors) < fa.maxThreads[1]
    THEN [fa |-> [fa EXCEPT !.executors = Append(@, fresh),
                            !.refCounts = Put(@, fresh, 1),
                            !.pid2execMap = Put(@, partitionId, fresh)],
          les |-> fresh, isNew |-> TRUE]
    ELSE LET nextAlloc == IF fa.nextAlloc >= Len(fa.executors) THEN 0 ELSE fa.nextAlloc
             les == fa.executors[nextAlloc + 1]
         IN  [fa |-> [fa EXCEPT !.refCounts = Put(@, les, @[les] + 1),
                                !.pid2execMap = Put(@, partitionId, les),
                                !.nextAlloc = nextAlloc + 1],
              les |-> les, isNew |-> FALSE]

\* allocate; fresh is the executor that getListeningExecutorService would
\* create, isNew tells whether it was
allocate(fa, partitionId, fresh) ==
    IF partitionId \in DOMAIN fa.pid2execMap
    THEN LET les == fa.pid2execMap[partitionId] IN
         [fa |-> [fa EXCEPT !.refCounts = Put(@, les, @[les] + 1)],
          les |-> les, isNew |-> FALSE]
    ELSE IF Len(fa.executors) < fa.maxThreads[1]
    THEN [fa |-> [fa EXCEPT !.executors = Append(@, fresh),
                            !.refCounts = Put(@, fresh, 1),
                            !.pid2execMap = Put(@, partitionId, fresh)],
          les |-> fresh, isNew |-> TRUE]
    ELSE LET nextAlloc == IF fa.nextAlloc >= Len(fa.executors) THEN 0 ELSE fa.nextAlloc
             les == fa.executors[nextAlloc + 1]
         IN  [fa |-> [fa EXCEPT !.refCounts = Put(@, les, @[les] + 1),
                                !.pid2execMap = Put(@, partitionId, les),
                                !.nextAlloc = nextAlloc + 1],
              les |-> les, isNew |-> FALSE]

\* release that shuts the executor down one reference early (<= 1 for == 0)
release_shutdownEarly(fa, partitionId) ==
    IF partitionId \notin DOMAIN fa.pid2execMap
    THEN [fa |-> fa, threw |-> TRUE, shut |-> <<>>]
    ELSE LET les == fa.pid2execMap[partitionId]
             refCount == fa.refCounts[les] - 1
         IN  IF refCount < 0 THEN [fa |-> fa, threw |-> TRUE, shut |-> <<>>]
             ELSE IF refCount <= 1
             THEN LET executors == RemoveFromList(fa.executors, les)
                      pids == {p \in DOMAIN fa.pid2execMap : fa.pid2execMap[p] # les}
                  IN  [fa |-> [fa EXCEPT !.executors = executors,
                                         !.refCounts = Remove(@, les),
                                         !.pid2execMap = [p \in pids |-> @[p]],
                                         !.nextAlloc = IF @ > Len(executors) THEN 0 ELSE @],
                       threw |-> FALSE, shut |-> <<les>>]
             ELSE [fa |-> [fa EXCEPT !.refCounts = Put(@, les, refCount)],
                   threw |-> FALSE, shut |-> <<>>]

\* release that returns without a word when the partition is not mapped
release_unmappedIgnored(fa, partitionId) ==
    IF partitionId \notin DOMAIN fa.pid2execMap
    THEN [fa |-> fa, threw |-> FALSE, shut |-> <<>>]
    ELSE LET les == fa.pid2execMap[partitionId]
             refCount == fa.refCounts[les] - 1
         IN  IF refCount < 0 THEN [fa |-> fa, threw |-> TRUE, shut |-> <<>>]
             ELSE IF refCount = 0
             THEN LET executors == RemoveFromList(fa.executors, les)
                      pids == {p \in DOMAIN fa.pid2execMap : fa.pid2execMap[p] # les}
                  IN  [fa |-> [fa EXCEPT !.executors = executors,
                                         !.refCounts = Remove(@, les),
                                         !.pid2execMap = [p \in pids |-> @[p]],
                                         !.nextAlloc = IF @ > Len(executors) THEN 0 ELSE @],
                       threw |-> FALSE, shut |-> <<les>>]
             ELSE [fa |-> [fa EXCEPT !.refCounts = Put(@, les, refCount)],
                   threw |-> FALSE, shut |-> <<>>]

\* release; threw tells whether it threw IllegalStateException, shut is <<les>>
\* when it shut the executor down
release(fa, partitionId) ==
    IF partitionId \notin DOMAIN fa.pid2execMap
    THEN [fa |-> fa, threw |-> TRUE, shut |-> <<>>]
    ELSE LET les == fa.pid2execMap[partitionId]
             refCount == fa.refCounts[les] - 1
         IN  IF refCount < 0 THEN [fa |-> fa, threw |-> TRUE, shut |-> <<>>]
             ELSE IF refCount = 0
             THEN LET executors == RemoveFromList(fa.executors, les)
                      pids == {p \in DOMAIN fa.pid2execMap : fa.pid2execMap[p] # les}
                  IN  [fa |-> [fa EXCEPT !.executors = executors,
                                         !.refCounts = Remove(@, les),
                                         !.pid2execMap = [p \in pids |-> @[p]],
                                         !.nextAlloc = IF @ > Len(executors) THEN 0 ELSE @],
                       threw |-> FALSE, shut |-> <<les>>]
             ELSE [fa |-> [fa EXCEPT !.refCounts = Put(@, les, refCount)],
                   threw |-> FALSE, shut |-> <<>>]

\* getMaxThreadCount: "return m_maxThreads" unboxes the Integer to an int,
\* which throws NullPointerException when the Integer is null
getMaxThreadCount(fa) ==
    IF fa.maxThreads = <<>> THEN [threw |-> TRUE, ret |-> 0]
    ELSE [threw |-> FALSE, ret |-> fa.maxThreads[1]]

\* getCurrentThreadCount
getCurrentThreadCount(fa) == Len(fa.executors)

NoFactoryCall == [op |-> "none"]

\* the outstanding allocations are a bag of <<partition id, executor>> pairs
\* (the table name of a data source only shows in log and exception messages)
NoneHeld == <<>>

HeldBy(h, partitionId) == {a \in DOMAIN h : a[1] = partitionId}

RECURSIVE SumOf(_, _)
SumOf(h, A) == IF A = {} THEN 0
               ELSE LET a == CHOOSE x \in A : TRUE IN h[a] + SumOf(h, A \ {a})

AddHeld(h, a) == IF a \in DOMAIN h THEN [h EXCEPT ![a] = @ + 1] ELSE Put(h, a, 1)

DelHeld(h, a) == IF h[a] = 1 THEN Remove(h, a) ELSE [h EXCEPT ![a] = @ - 1]

FactoryInit ==
    /\ env \in Envs
    /\ m_maxThreads = FactoryConstructed.maxThreads
    /\ m_nextAlloc = FactoryConstructed.nextAlloc
    /\ m_executors = FactoryConstructed.executors
    /\ m_refCounts = FactoryConstructed.refCounts
    /\ m_pid2execMap = FactoryConstructed.pid2execMap
    /\ held = NoneHeld
    /\ created = 0
    /\ shutdownExecs = {}
    /\ unmatched = 0
    /\ factoryCall = NoFactoryCall

\* the factory side while only the filter runs: a factory never used
FactoryIdle ==
    /\ FactoryInit
    /\ env = [property |-> <<>>, availableProcessors |-> 1, localSitesCount |-> 0]

\* getExecutor(partitionId, tableName), called by the constructor of an export
\* data source of that partition
GetExecutor ==
    \E partitionId \in PartitionIds :
        /\ SumOf(held, HeldBy(held, partitionId)) < MaxAllocations
        /\ LET r == allocate(initialize(Factory, env), partitionId, created + 1) IN
           /\ r.isNew => created < MaxExecutorsCreated
           /\ StoreFactory(r.fa)
           /\ created' = IF r.isNew THEN created + 1 ELSE created
           /\ held' = AddHeld(held, <<partitionId, r.les>>)
           /\ factoryCall' = [op |-> "getExecutor", pid |-> partitionId, threw |-> FALSE]
        /\ UNCHANGED <<env, shutdownExecs, unmatched, filterSide>>

\* freeExecutor(partitionId, tableName), by a data source that holds an
\* allocation of that partition or by a caller that holds none
FreeExecutor ==
    \E partitionId \in PartitionIds :
        LET mine == HeldBy(held, partitionId)
            r == IF ~isInitialized(Factory)
                 THEN [fa |-> Factory, threw |-> TRUE, shut |-> <<>>]
                 ELSE release(Factory, partitionId)
        IN  /\ StoreFactory(r.fa)
            /\ held' \in (IF r.threw \/ mine = {} THEN {held}
                          ELSE {DelHeld(held, a) : a \in mine})
            /\ shutdownExecs' = shutdownExecs \cup Range(r.shut)
            /\ (mine = {} /\ ~r.threw) => unmatched < MaxUnmatched
            /\ unmatched' = IF mine = {} /\ ~r.threw THEN unmatched + 1 ELSE unmatched
            /\ factoryCall' = [op |-> "freeExecutor", pid |-> partitionId,
                               threw |-> r.threw]
            /\ UNCHANGED <<env, created, filterSide>>

\* getMaxThreadCount()
GetMaxThreadCount ==
    /\ LET r == getMaxThreadCount(Factory) IN
       factoryCall' = [op |-> "getMaxThreadCount", threw |-> r.threw, ret |-> r.ret]
    /\ UNCHANGED <<env, factoryVars, held, created, shutdownExecs, unmatched, filterSide>>

\* ------------------------------------------------------------------------
\* Specifications
\* ------------------------------------------------------------------------
Init == FilterInit /\ FactoryIdle

Next ==
    \/ InitFilter
    \/ UpdateTuple
    \/ Begin
    \/ Increment
    \/ GetTupleAddress
    \/ EndIteration

\* the tuple filter through its life: init, the scan pass, iterations
Spec == Init /\ [][Next]_vars

InterleavedNext ==
    \/ InitFilter
    \/ Begin
    \/ Increment
    \/ UpdateDuringIteration

\* the tuple filter with updateTuple calls between the increments of a live
\* iterator
InterleavedSpec == Init /\ [][InterleavedNext]_vars

FactoryNext ==
    \/ GetExecutor
    \/ FreeExecutor

FactorySpecInit == FilterIdle /\ FactoryInit

\* the executor factory under the calls of the export data sources
FactorySpec == FactorySpecInit /\ [][FactoryNext]_vars

FactoryQueryNext ==
    \/ GetExecutor
    \/ FreeExecutor
    \/ GetMaxThreadCount

\* the executor factory under the calls of the export data sources and the
\* queries of its thread counts
FactoryQuerySpec == FactorySpecInit /\ [][FactoryQueryNext]_vars

\* ------------------------------------------------------------------------
\* Properties of the filter
\* ------------------------------------------------------------------------
AllSlotAddresses == SlotAddresses(table.blocks, table.tuplesPerBlock, table.tupleLength)

\* the slots of [0, last_active_slot] that carry MARKER
MatchingSlots(f, MARKER) ==
    IF empty(f) THEN {}
    ELSE {i \in 0..f.lastActiveTupleIndex : i < Len(f.tuples) /\ f.tuples[i + 1] = MARKER}

\* the slot indices of the tuples active in the table when init ran
InitiallyActiveSlots == {TupleIndexOf(table, t) : t \in table.active}

InBlockOf(t, address) ==
    LET base == table.blocks[BlockNumberOf(table, t)] IN
    /\ address >= base
    /\ address < base + table.tuplesPerBlock * table.tupleLength

\* C1: in every filter state, for every marker M, the walk from begin<M>() by
\* increments up to end<M>() yields exactly the slots of [0, last_active_slot]
\* that carry M, each once, in increasing order, slot 0 included; the caller's
\* live iterator has yielded exactly those of them up to its position.
C1_WalkYieldsMatchingSlots ==
    phase = "ready" =>
        /\ \A M \in Markers :
             LET w == Walk(Self, M) IN
             /\ w.atEnd
             /\ w.yielded = SortedSeq(MatchingSlots(Self, M))
        /\ iter.live =>
             iter.yielded =
                 SortedSeq({i \in MatchingSlots(Self, iter.marker) : i <= iter.tupleIdx})

\* a finished walk for a caller-defined marker that yielded slot 0 and another
C1_Witness ==
    /\ phase = "ready"
    /\ iter.live
    /\ iter.marker = 1
    /\ equal(iter.tupleIdx, end(Self, iter.marker))
    /\ Len(iter.yielded) >= 2
    /\ iter.yielded[1] = 0

\* C2: right after init every active tuple's slot holds ACTIVE, distinct active
\* tuples have distinct slots, every other slot holds INACTIVE, last_active_slot
\* is the largest slot of an active tuple, and the ACTIVE walk yields the active
\* tuples' slots in increasing order.
C2_AfterInit ==
    (phase = "ready" /\ nUpdates = 0) =>
        LET slotOf == [t \in table.active |-> getTupleIndex(Self, t).idx] IN
        /\ \A t \in table.active :
             /\ slotOf[t] = TupleIndexOf(table, t)
             /\ getTupleValue(Self, slotOf[t]).ok
             /\ getTupleValue(Self, slotOf[t]).value = ACTIVE_TUPLE
        /\ \A t1, t2 \in table.active : t1 # t2 => slotOf[t1] # slotOf[t2]
        /\ \A i \in 0..(Len(m_tuples) - 1) :
             i \notin InitiallyActiveSlots => m_tuples[i + 1] = INACTIVE_TUPLE
        /\ table.active # {} =>
             /\ m_lastActiveTupleIndex \in InitiallyActiveSlots
             /\ \A i \in InitiallyActiveSlots : i <= m_lastActiveTupleIndex
        /\ Walk(Self, ACTIVE_TUPLE).yielded = SortedSeq(InitiallyActiveSlots)

\* two blocks of two slots, descending enumeration, active slots 0, 1 and 3
C2_Witness ==
    /\ phase = "ready"
    /\ nUpdates = 0
    /\ Len(m_blocks) = 2
    /\ m_blocks[1] > m_blocks[2]
    /\ m_lastActiveTupleIndex = 3
    /\ Walk(Self, ACTIVE_TUPLE).yielded = <<0, 1, 3>>

AfterAcceptedUpdate ==
    /\ phase = "ready"
    /\ lastCall.op = "updateTuple"
    /\ lastCall.ok

\* C3 (as stated): after an accepted updateTuple(t, M) the return value is t's
\* slot, the slot reads M, the walk for M includes the slot and the walk for
\* the marker the slot carried before does not.
C3_Original ==
    AfterAcceptedUpdate =>
        /\ lastCall.ret = TupleIndexOf(table, lastCall.tuple)
        /\ getTupleValue(Self, lastCall.ret).value = lastCall.marker
        /\ lastCall.ret \in Range(Walk(Self, lastCall.marker).yielded)
        /\ lastCall.ret \notin Range(Walk(Self, lastCall.prev).yielded)

\* C3 (amended): as above, the walk for the previous marker leaving the slot out
\* when that marker differs from M.
C3_UpdateThenIterate ==
    AfterAcceptedUpdate =>
        /\ lastCall.ret = TupleIndexOf(table, lastCall.tuple)
        /\ getTupleValue(Self, lastCall.ret).value = lastCall.marker
        /\ lastCall.ret \in Range(Walk(Self, lastCall.marker).yielded)
        /\ lastCall.prev # lastCall.marker =>
             lastCall.ret \notin Range(Walk(Self, lastCall.prev).yielded)

\* a tuple of the second block re-stamped from ACTIVE to a caller-defined code
C3_Witness ==
    /\ AfterAcceptedUpdate
    /\ lastCall.prev = ACTIVE_TUPLE
    /\ lastCall.marker = 1
    /\ lastCall.ret >= m_tuplesPerBlock
    /\ m_tuplesPerBlock >= 2

\* C4: for every tuple t of an enumerated block, getTupleAddress(getTupleIndex(t))
\* lies within t's block.
C4_AddressRoundTrip ==
    phase = "ready" =>
        \A t \in AllSlotAddresses :
            LET r == getTupleAddress(Self, getTupleIndex(Self, t).idx) IN
            r.ok /\ InBlockOf(t, r.address)

\* C5: a filter built from a table without active tuples is empty and
\* begin<M>() = end<M>() for every M, so that the walk yields nothing; a filter
\* built from a table with an active tuple is not empty and its end<M>() stands
\* at last_active_slot + 1.
C5_EmptyFilter ==
    phase = "ready" =>
        /\ empty(Self) <=> table.active = {}
        /\ empty(Self) =>
             \A M \in Markers :
                 /\ equal(begin(Self, M).idx, end(Self, M))
                 /\ Walk(Self, M).yielded = <<>>
        /\ ~empty(Self) =>
             \A M \in Markers : end(Self, M) = m_lastActiveTupleIndex + 1
        /\ (iter.live /\ empty(Self)) =>
             /\ equal(iter.tupleIdx, end(Self, iter.marker))
             /\ iter.yielded = <<>>

\* begin<M>() taken on the filter of a table without active tuples
C5_Witness ==
    /\ phase = "ready"
    /\ table.active = {}
    /\ iter.live
    /\ Len(m_tuples) >= 2

\* C6: an updateTuple whose tuple resolves to a slot beyond last_active_slot, or
\* to a slot that holds INACTIVE, or that is made on an empty filter, fails an
\* assertion and leaves the marker array as it was.
C6_UpdateRejected ==
    [][(phase = "ready" /\ nUpdates' = nUpdates + 1) =>
          LET idx == TupleIndexOf(table, lastCall'.tuple) IN
          (\/ empty(Self)
           \/ idx > m_lastActiveTupleIndex
           \/ m_tuples[idx + 1] = INACTIVE_TUPLE)
          => (phase' = "aborted" /\ ~lastCall'.ok /\ m_tuples' = m_tuples)]_vars

\* a rejected update of a slot beyond last_active_slot of a non-empty filter
C6_Witness ==
    /\ phase = "aborted"
    /\ lastCall.op = "updateTuple"
    /\ ~empty(Self)
    /\ lastCall.ret > m_lastActiveTupleIndex
    /\ lastCall.marker = 1

\* C7: whatever the one-byte marker arguments of the accepted updateTuple
\* calls, no slot set to ACTIVE by init ever holds INACTIVE again.
C7_NeverInactiveAgain ==
    phase \in {"ready", "aborted"} =>
        \A i \in InitiallyActiveSlots : m_tuples[i + 1] # INACTIVE_TUPLE

\* C8: for every marker M the walk from begin<M>() reaches end<M>() within
\* last_active_slot + 1 increments (none on an empty filter); the iterator
\* never stands beyond the end sentinel.
MaxIncrements == IF empty(Self) THEN 0 ELSE m_lastActiveTupleIndex + 1

C8_IterationTerminates ==
    phase = "ready" =>
        /\ \A M \in Markers :
             LET w == Walk(Self, M) IN
             /\ w.atEnd
             /\ w.increments <= MaxIncrements
        /\ iter.live =>
             /\ iter.increments <= MaxIncrements
             /\ (empty(Self) \/ iter.tupleIdx <= end(Self, iter.marker))
             /\ (empty(Self) => equal(iter.tupleIdx, end(Self, iter.marker)))

\* an iterator that took last_active_slot + 1 increments to reach its end
C8_Witness ==
    /\ phase = "ready"
    /\ iter.live
    /\ m_lastActiveTupleIndex = 2
    /\ iter.increments = m_lastActiveTupleIndex + 1
    /\ equal(iter.tupleIdx, end(Self, iter.marker))

\* C14: in every state of the initialized filter, whatever block the cache
\* holds, getTupleIndex(t) is the cache-free value of the class comment's
\* equation for every tuple t of every enumerated block, and it still is for
\* every t2 looked up right after any t1 (the cache then holds t1's block).
C14_CacheIndependent ==
    phase = "ready" =>
        \A t1 \in AllSlotAddresses :
            LET r1 == getTupleIndex(Self, t1) IN
            /\ r1.found
            /\ r1.idx = TupleIndexOf(table, t1)
            /\ r1.f.prevBlockAddress = table.blocks[BlockNumberOf(table, t1)]
            /\ \A t2 \in AllSlotAddresses :
                 LET r2 == getTupleIndex(r1.f, t2) IN
                 r2.found /\ r2.idx = TupleIndexOf(table, t2)

\* init left the cache on the second of two blocks (all tuples active, blocks
\* in ascending order) and an accepted updateTuple of a tuple of the first
\* block brought it back
C14_Witness ==
    /\ AfterAcceptedUpdate
    /\ Len(m_blocks) = 2
    /\ m_blocks[1] < m_blocks[2]
    /\ m_tuplesPerBlock = 2
    /\ table.active = AllSlotAddresses
    /\ m_prevBlockAddress = m_blocks[1]
    /\ lastCall.ret = 1

\* C15: in every state after init the marker array has one entry per slot of
\* every enumerated block (blocks * tuples per block), and the last active
\* tuple index of a filter that is not empty is an index into it.
C15_MarkerArraySize ==
    phase \in {"ready", "aborted"} =>
        /\ Len(m_blocks) = Len(table.blocks)
        /\ Len(m_tuples) = Len(m_blocks) * m_tuplesPerBlock
        /\ ~empty(Self) => m_lastActiveTupleIndex < Len(m_tuples)

\* the last slot of the second block is the last active one, after an update
C15_Witness ==
    /\ phase = "ready"
    /\ nUpdates >= 1
    /\ Len(m_blocks) = 2
    /\ Len(m_tuples) = 4
    /\ m_lastActiveTupleIndex = 3

\* C16: an accepted updateTuple(t, M) writes M into the slot of t and leaves
\* every other marker, the block list, the block-offset map, the geometry and
\* the last active tuple index as they were; every other step on the initialized
\* filter (begin, end, empty, increments with their getTupleValue reads,
\* getTupleAddress) leaves all of the filter as it was; the last active tuple
\* index never changes once init is over.
C16_UpdateFrame ==
    [][/\ (phase = "ready" /\ phase' = "ready" /\ nUpdates' = nUpdates + 1) =>
            /\ lastCall'.ok
            /\ m_tuples' = [m_tuples EXCEPT
                              ![TupleIndexOf(table, lastCall'.tuple) + 1] = lastCall'.marker]
            /\ UNCHANGED <<m_blocks, m_blockIndexes, m_tuplesPerBlock, m_tupleLength,
                           m_lastActiveTupleIndex>>
       /\ (phase = "ready" /\ nUpdates' = nUpdates) => UNCHANGED filterVars
       /\ phase # "constructed" => UNCHANGED m_lastActiveTupleIndex]_vars

\* an iterator advanced over a filter whose second block had a tuple stamped
\* with a caller-defined code while another slot stayed ACTIVE
C16_Witness ==
    /\ AfterAcceptedUpdate
    /\ lastCall.marker = 1
    /\ lastCall.ret >= m_tuplesPerBlock
    /\ \E i \in 1..Len(m_tuples) : m_tuples[i] = ACTIVE_TUPLE
    /\ iter.live
    /\ iter.increments >= 1
    /\ iter.fetched

\* C17: the iterator has yielded only slots of [0, last_active_slot], and its
\* begin<M>() and its next increment (taken while it differs from end<M>())
\* pass to getTupleValue only indices of [0, last_active_slot], all inside the
\* marker array, and stop at or before last_active_slot + 1; no step of an
\* iteration fails an assertion.
C17_ReadsWithinLastActive ==
    /\ phase = "ready" =>
         /\ \A M \in Markers :
              LET b == begin(Self, M) IN
              /\ b.ok
              /\ \A i \in b.reads : i <= m_lastActiveTupleIndex /\ i < Len(m_tuples)
         /\ iter.live =>
              /\ \A k \in 1..Len(iter.yielded) : iter.yielded[k] <= m_lastActiveTupleIndex
              /\ ~equal(iter.tupleIdx, end(Self, iter.marker)) =>
                   LET n == increment(Self, iter.marker, iter.tupleIdx) IN
                   /\ n.ok
                   /\ \A i \in n.reads : i <= m_lastActiveTupleIndex /\ i < Len(m_tuples)
                   /\ n.idx <= m_lastActiveTupleIndex + 1
    /\ phase = "aborted" => (lastCall.op = "updateTuple" /\ ~lastCall.ok)

\* an iterator that went from slot 0 to its end over a filter whose marker
\* array has two slots beyond the last active one
C17_Witness ==
    /\ phase = "ready"
    /\ iter.live
    /\ m_lastActiveTupleIndex = 1
    /\ Len(m_tuples) = 4
    /\ iter.yielded = <<0>>
    /\ equal(iter.tupleIdx, end(Self, iter.marker))

\* C19: with updateTuple calls between the increments of a live iterator for
\* marker M, the iterator has made at most as many increments as its index
\* counts slots passed, its index never goes beyond end<M>() (so that it is at
\* end<M>() after last_active_slot + 1 increments at the latest), an increment
\* strictly raises the index and does not fail, and the index that begin<M>()
\* or an increment yields holds M in the marker array of that moment.
C19_InterleavedIteration ==
    /\ [](((phase = "ready" /\ iter.live) =>
             /\ iter.increments <= MaxIncrements
             /\ empty(Self) => equal(iter.tupleIdx, end(Self, iter.marker))
             /\ ~empty(Self) =>
                  /\ iter.increments <= iter.tupleIdx
                  /\ iter.tupleIdx <= end(Self, iter.marker))
           /\ (phase = "aborted" => (lastCall.op = "updateTuple" /\ ~lastCall.ok)))
    /\ [][/\ (iter.live /\ iter'.live /\ iter'.increments = iter.increments + 1) =>
               /\ phase' = "ready"
               /\ iter'.tupleIdx > iter.tupleIdx
               /\ ~equal(iter'.tupleIdx, end(Self, iter.marker)) =>
                    /\ iter'.yielded = Append(iter.yielded, iter'.tupleIdx)
                    /\ m_tuples[iter'.tupleIdx + 1] = iter.marker
          /\ (~iter.live /\ iter'.live) =>
               /\ phase' = "ready"
               /\ ~equal(iter'.tupleIdx, end(Self, iter'.marker)) =>
                    m_tuples[iter'.tupleIdx + 1] = iter'.marker
          /\ (iter.live /\ iter'.live /\ iter'.increments = iter.increments
              /\ iter'.marker = iter.marker /\ nUpdates' = nUpdates + 1) =>
               iter'.tupleIdx = iter.tupleIdx]_vars

\* an ACTIVE iterator over active slots 0, 1, 2 that yielded slot 0, had slots
\* 0 and 1 stamped with a caller-defined code behind its back, then yielded
\* slot 2 and reached its end
C19_Witness ==
    /\ phase = "ready"
    /\ iter.live
    /\ iter.marker = ACTIVE_TUPLE
    /\ iter.yielded = <<0, 2>>
    /\ equal(iter.tupleIdx, end(Self, iter.marker))
    /\ nUpdates = 2
    /\ m_tuples[1] = 1
    /\ m_tuples[2] = 1
    /\ table.active = {t \in AllSlotAddresses : TupleIndexOf(table, t) <= 2}

\* ------------------------------------------------------------------------
\* Properties of the executor factory
\* ------------------------------------------------------------------------
\* C9: as long as every freeExecutor that was served had an outstanding
\* allocation of its partition, all outstanding allocations of one partition
\* hold the same executor.
C9_OnePartitionOneExecutor ==
    unmatched = 0 =>
        \A a, b \in DOMAIN held : a[1] = b[1] => a[2] = b[2]

\* two outstanding allocations of one partition on the second executor created,
\* the first one shut down
C9_Witness ==
    /\ unmatched = 0
    /\ \E a \in DOMAIN held : held[a] = 2 /\ a[2] = 2
    /\ shutdownExecs = {1}

\* C10: once the factory is initialized its max thread count is at least 1 and
\* the number of live executors never exceeds it.
C10_ThreadCountBounded ==
    isInitialized(Factory) =>
        /\ m_maxThreads[1] >= 1
        /\ getCurrentThreadCount(Factory) <= m_maxThreads[1]

\* the factory at its limit of one executor, which two partitions share
C10_Witness ==
    /\ isInitialized(Factory)
    /\ m_maxThreads[1] = 1
    /\ getCurrentThreadCount(Factory) = 1
    /\ Cardinality(DOMAIN m_pid2execMap) = 2

\* the executors some outstanding allocation holds
HeldExecutors == {a[2] : a \in DOMAIN held}

\* C11: as long as every freeExecutor that was served had an outstanding
\* allocation of its partition, the executors shut down are exactly the
\* executors created that no outstanding allocation holds, and the executors
\* with a reference count are exactly the executors held; an executor that was
\* shut down is in no list or map getExecutor returns from.
C11_ShutdownWhenLastFreed ==
    /\ unmatched = 0 =>
         /\ shutdownExecs = (1..created) \ HeldExecutors
         /\ DOMAIN m_refCounts = HeldExecutors
    /\ shutdownExecs \cap Range(m_executors) = {}
    /\ \A p \in DOMAIN m_pid2execMap : m_pid2execMap[p] \notin shutdownExecs

\* a factory of one thread: the first executor was shut down by the free of its
\* last allocation, and the executor created after that is held
C11_Witness ==
    /\ unmatched = 0
    /\ factoryCall.op = "freeExecutor"
    /\ ~factoryCall.threw
    /\ shutdownExecs = {1}
    /\ HeldExecutors = {2}
    /\ m_maxThreads = <<1>>

\* C12: when the MAX_EXPORT_THREADS property is not set, the initialized
\* factory runs with a max thread count of 1, and all outstanding allocations
\* hold the same single executor.
C12_DefaultOneThread ==
    (isInitialized(Factory) /\ env.property = <<>>) =>
        /\ m_maxThreads = <<1>>
        /\ getCurrentThreadCount(Factory) <= 1
        /\ Cardinality(HeldExecutors) <= 1

\* C13: getMaxThreadCount does not fail; it returns the max thread count of an
\* initialized factory and 0 on a factory that was not initialized.
C13_MaxThreadCountOrZero ==
    factoryCall.op = "getMaxThreadCount" =>
        /\ ~factoryCall.threw
        /\ factoryCall.ret = IF isInitialized(Factory) THEN m_maxThreads[1] ELSE 0

\* C18: a freeExecutor on a factory that was not initialized, or for a
\* partition id without an executor mapped, throws IllegalStateException and
\* leaves m_executors, m_refCounts, m_pid2execMap, m_nextAlloc (and
\* m_maxThreads) as they were; it shuts no executor down.
C18_FreeUnmappedThrows ==
    [][factoryCall'.op = "freeExecutor" =>
          ((~isInitialized(Factory) \/ factoryCall'.pid \notin DOMAIN m_pid2execMap) =>
              /\ factoryCall'.threw
              /\ UNCHANGED <<factoryVars, held, shutdownExecs>>)]_vars

\* a freeExecutor that threw for a partition without an executor, on a factory
\* with an executor allocated to another partition
C18_Witness ==
    /\ factoryCall.op = "freeExecutor"
    /\ factoryCall.threw
    /\ isInitialized(Factory)
    /\ factoryCall.pid \notin DOMAIN m_pid2execMap
    /\ Len(m_executors) = 1
    /\ held # NoneHeld

====
